---- MODULE Spec2Model ----
(***************************************************************************)
(* The NM150 driver (bin/user/nm150.py): the serial byte source, the       *)
(* sentence extractor get_wimda_packet and the generator genLoopPackets.   *)
(*                                                                         *)
(* A byte is a one-character string; the NUL byte is written "NUL".  A     *)
(* byte string is a sequence of bytes.                                     *)
(***************************************************************************)
EXTENDS Integers, Sequences, FiniteSets, TLC

VARIABLES
    wire,          \* every byte the station sends on the serial line, in order
    pos,           \* how many bytes of wire serial_port.read has handed out
    buf,           \* the local buf of get_wimda_packet
    wimda_packet,  \* the local wimda_packet of genLoopPackets
    pc,            \* where the generator stands
    lastRead,      \* how the latest serial_port.read ended
    frames,        \* every value get_wimda_packet has returned, in order
    records        \* every packet genLoopPackets has yielded, in order

vars == <<wire, pos, buf, wimda_packet, pc, lastRead, frames, records>>

----------------------------------------------------------------------------
(* Bytes and literals of the source *)

NUL == "NUL"
CR == "\r"
LF == "\n"

\* the literal $WIMDA, of the pattern
Marker == <<"$", "W", "I", "M", "D", "A", ",">>

\* serial_port.read(70)
ReadSize == 70

\* longest chunk one read hands out in the model, and number of pieces on the wire
MaxChunk == 3
MaxPieces == 3

Min(a, b) == IF a < b THEN a ELSE b

----------------------------------------------------------------------------
(* chunk.strip('\00'): the NUL bytes at both ends of the chunk are removed, *)
(* the ones inside stay.                                                    *)

RECURSIVE lstrip(_, _)
lstrip(s, c) ==
    IF s # <<>> /\ Head(s) = c THEN lstrip(Tail(s), c) ELSE s

RECURSIVE rstrip(_, _)
rstrip(s, c) ==
    IF s # <<>> /\ s[Len(s)] = c THEN rstrip(SubSeq(s, 1, Len(s) - 1), c) ELSE s

strip(s, c) == rstrip(lstrip(s, c), c)

\* a plausible slip: an empty read starts the buffer over
AccumulateRestart(b, chunk) ==
    IF chunk = <<>> THEN <<>> ELSE b \o strip(chunk, NUL)

\* chunk = chunk.strip('\00'); buf = buf + chunk
Accumulate(b, chunk) == b \o strip(chunk, NUL)

----------------------------------------------------------------------------
\* re.search with the pattern  \$WIMDA, then .* in a group, then \n  as the
\* backtracking matcher runs it: start positions are tried from the left; at
\* each, the literal must match, then .* takes as many bytes as it can ('.' is
\* any byte but LF, the pattern has no DOTALL flag), then LF must follow.
\* Giving bytes back cannot help: every byte .* took is not LF.

StartsWith(b, i, lit) ==
    /\ i + Len(lit) - 1 <= Len(b)
    /\ \A k \in 1..Len(lit) : b[i + k - 1] = lit[k]

\* a plausible slip: with re.DOTALL '.' takes LF too, and .* gives back to the last LF
DotStarDotAll(b, j) ==
    LET lfs == {k \in j..Len(b) : b[k] = LF}
    IN  IF lfs = {} THEN Len(b)
        ELSE (CHOOSE k \in lfs : \A l \in lfs : l <= k) - 1

\* the index of the last byte .* takes when it starts at j (j - 1 when it takes none)
RECURSIVE DotStar(_, _)
DotStar(b, j) ==
    IF j <= Len(b) /\ b[j] # LF THEN DotStar(b, j + 1) ELSE j - 1

\* the attempt at start position i: the index of the last byte of group 1, or 0
MatchAt(b, i) ==
    IF StartsWith(b, i, Marker)
    THEN LET e == DotStar(b, i + Len(Marker))
         IN  IF e + 1 <= Len(b) /\ b[e + 1] = LF THEN e ELSE 0
    ELSE 0

NoMatch == [start |-> 0, end |-> 0]

RECURSIVE SearchFrom(_, _)
SearchFrom(b, i) ==
    IF i > Len(b) THEN NoMatch
    ELSE LET e == MatchAt(b, i)
         IN  IF e # 0 THEN [start |-> i, end |-> e] ELSE SearchFrom(b, i + 1)

re_search(b) == SearchFrom(b, 1)

\* matches.group(1)
group1(b, m) == SubSeq(b, m.start, m.end)

----------------------------------------------------------------------------
(* Decoding.  pynmea2 and weewx.units are libraries outside the repository; *)
(* what the driver relies on is modelled here: parse splits the text after  *)
(* the sentence tag at the commas, an attribute is the field at the index   *)
(* the MDA sentence gives it (absent when the sentence is too short), and   *)
(* convert is the affine change of unit.  Values are kept as integers in    *)
(* units of 1/1000.                                                         *)

DigitChars == <<"0", "1", "2", "3", "4", "5", "6", "7", "8", "9">>

IsDigit(c) == \E i \in 1..Len(DigitChars) : DigitChars[i] = c

DigitVal(c) == (CHOOSE i \in 1..Len(DigitChars) : DigitChars[i] = c) - 1

RECURSIVE NumVal(_)
NumVal(s) ==
    IF s = <<>> THEN 0
    ELSE 10 * NumVal(SubSeq(s, 1, Len(s) - 1)) + DigitVal(s[Len(s)])

\* s.split(','): the pieces of s between the commas
RECURSIVE Split(_, _)
Split(s, acc) ==
    IF s = <<>> THEN <<acc>>
    ELSE IF Head(s) = "," THEN <<acc>> \o Split(Tail(s), <<>>)
    ELSE Split(Tail(s), Append(acc, Head(s)))

\* pynmea2.parse(wimda_packet): the data fields after "$WIMDA,"
parse(frame) == Split(SubSeq(frame, Len(Marker) + 1, Len(frame)), <<>>)

\* index of each attribute the driver reads among the fields of an MDA sentence
FieldIndex ==
    [b_pressure_inch |-> 0, air_temp |-> 4, rel_humidity |-> 8,
     direction_true |-> 12, wind_speed_knots |-> 16]

\* parsed.<name>
Attr(data, name) ==
    IF FieldIndex[name] < Len(data) THEN data[FieldIndex[name] + 1] ELSE <<>>

\* a plausible slip: an empty or unreadable field counts as 0
floatLenient(tok) ==
    LET t == strip(strip(tok, CR), " ")
    IN  IF t # <<>> /\ \A k \in 1..Len(t) : IsDigit(t[k])
        THEN [status |-> "ok", val |-> NumVal(t) * 1000]
        ELSE [status |-> "ok", val |-> 0]

\* float(x): white space around the number is ignored; an empty field and a
\* field that is no number raise
float(tok) ==
    LET t == strip(strip(tok, CR), " ")
    IN  IF t = <<>> THEN [status |-> "empty", val |-> 0]
        ELSE IF \A k \in 1..Len(t) : IsDigit(t[k])
        THEN [status |-> "ok", val |-> NumVal(t) * 1000]
        ELSE [status |-> "ValueError", val |-> 0]

\* weewx.units.convert for the unit pairs the driver asks for
convert(v, from, to) ==
    CASE from = "degree_C" /\ to = "degree_F" -> (v * 9) \div 5 + 32 * 1000
      [] from = "knot" /\ to = "mile_per_hour" -> (v * 1151) \div 1000
      [] OTHER -> v

\* the assignments of the loop body, in the order the code makes them
Assignments ==
    << [key |-> "barometer",   attr |-> "b_pressure_inch",  from |-> "inHg",     to |-> "inHg"],
       [key |-> "outTemp",     attr |-> "air_temp",         from |-> "degree_C", to |-> "degree_F"],
       [key |-> "windSpeed",   attr |-> "wind_speed_knots", from |-> "knot",     to |-> "mile_per_hour"],
       [key |-> "windDir",     attr |-> "direction_true",   from |-> "degree",   to |-> "degree"],
       [key |-> "outHumidity", attr |-> "rel_humidity",     from |-> "percent",  to |-> "percent"] >>

\* packet['usUnits'] = weewx.US.  packet['dateTime'] is the wall clock, which
\* the model does not carry.
EmptyPacket == "usUnits" :> 1

\* the body of the try block from packet = dict() to the yield: the packet
\* is filled key by key, and the first float() that raises ends it
RECURSIVE Fill(_, _, _)
Fill(packet, data, k) ==
    IF k > Len(Assignments) THEN [status |-> "ok", packet |-> packet]
    ELSE LET a == Assignments[k]
             r == float(Attr(data, a.attr))
         IN  IF r.status # "ok" THEN [status |-> r.status, packet |-> packet]
             ELSE Fill(packet @@ (a.key :> convert(r.val, a.from, a.to)), data, k + 1)

BuildPacket(frame) == Fill(EmptyPacket, parse(frame), 1)

----------------------------------------------------------------------------
(* The serial line.  The station's output is a run of at most MaxPieces    *)
(* pieces: sentence starts, terminators, filler and noise, the last of      *)
(* which may be one complete well-formed sentence.                          *)

GoodLine ==
    Marker \o <<"1", ",", ",", ",", ",", "2", ",", ",", ",", ",", "3", ",", ",",
                ",", ",", "4", ",", ",", ",", ",", "5", LF>>

Pieces ==
    { Marker \o <<"1">>, <<LF>>, <<CR>>, <<NUL>>, <<"$", "W">> }

RECURSIVE WiresOf(_)
WiresOf(n) ==
    IF n = 0 THEN {<<>>}
    ELSE LET S == WiresOf(n - 1) IN S \cup {w \o p : w \in S, p \in Pieces}

Wires == WiresOf(MaxPieces) \cup {w \o GoodLine : w \in WiresOf(MaxPieces - 1)}

----------------------------------------------------------------------------
(* The generator.  pc is "start" before the first next(), "read" at the     *)
(* serial_port.read call inside get_wimda_packet, "decode" when              *)
(* get_wimda_packet has returned, "yielded" while the generator is          *)
(* suspended at the yield, and "dead" once an exception has left it.        *)

Init ==
    /\ wire \in Wires
    /\ pos = 0
    /\ buf = <<>>
    /\ wimda_packet = <<>>
    /\ pc = "start"
    /\ lastRead = "none"
    /\ frames = <<>>
    /\ records = <<>>

\* the caller's next(): the loop comes round, get_wimda_packet is called and
\* sets buf = ''
Resume ==
    /\ pc \in {"start", "yielded"}
    /\ pc' = "read"
    /\ buf' = <<>>
    /\ UNCHANGED <<wire, pos, wimda_packet, lastRead, frames, records>>

\* one turn of the loop of get_wimda_packet: read, strip, append, search
ReadChunk(n) ==
    /\ pc = "read"
    /\ LET chunk == SubSeq(wire, pos + 1, pos + n)
           b == Accumulate(buf, chunk)
           m == re_search(b)
       IN  /\ pos' = pos + n
           /\ buf' = b
           /\ lastRead' = IF n = 0 THEN "timeout" ELSE "data"
           /\ IF m # NoMatch
              THEN /\ wimda_packet' = group1(b, m)
                   /\ frames' = Append(frames, group1(b, m))
                   /\ pc' = "decode"
              ELSE UNCHANGED <<wimda_packet, frames, pc>>
    /\ UNCHANGED <<wire, records>>

\* a plausible slip: the read is tried again inside get_wimda_packet
ReadErrorRetry ==
    /\ pc = "read"
    /\ lastRead' = "error"
    /\ UNCHANGED <<wire, pos, buf, wimda_packet, pc, frames, records>>

\* serial_port.read raises SerialException: it leaves get_wimda_packet, is
\* caught and logged in genLoopPackets, and the loop calls get_wimda_packet again
ReadError ==
    /\ pc = "read"
    /\ lastRead' = "error"
    /\ buf' = <<>>
    /\ pc' = "read"
    /\ UNCHANGED <<wire, pos, wimda_packet, frames, records>>

\* every float() succeeded: the packet is yielded
DecodeYield ==
    /\ pc = "decode"
    /\ BuildPacket(wimda_packet).status = "ok"
    /\ records' = Append(records, BuildPacket(wimda_packet).packet)
    /\ pc' = "yielded"
    /\ UNCHANGED <<wire, pos, buf, wimda_packet, lastRead, frames>>

\* a ValueError (a field that is no number, or an empty field that reaches
\* float() as ''): caught and logged, the loop calls get_wimda_packet again
DecodeValueError ==
    /\ pc = "decode"
    /\ BuildPacket(wimda_packet).status \in {"ValueError", "empty"}
    /\ pc' = "read"
    /\ buf' = <<>>
    /\ UNCHANGED <<wire, pos, wimda_packet, lastRead, frames, records>>

\* an empty field that reaches float() as None raises TypeError, which the
\* except clause does not name: it leaves the generator
DecodeTypeError ==
    /\ pc = "decode"
    /\ BuildPacket(wimda_packet).status = "empty"
    /\ pc' = "dead"
    /\ UNCHANGED <<wire, pos, buf, wimda_packet, lastRead, frames, records>>

Decode == DecodeYield \/ DecodeValueError \/ DecodeTypeError

Read == \E n \in 0..Min(Min(ReadSize, MaxChunk), Len(wire) - pos) : ReadChunk(n)

Next == Resume \/ Read \/ ReadError \/ Decode

Spec == Init /\ [][Next]_vars

\* the same driver on a serial line that never fails
NextReliable == Resume \/ Read \/ Decode

SpecReliable == Init /\ [][NextReliable]_vars

----------------------------------------------------------------------------
(* What the claims speak of *)

\* the marker stands at index i of b
MarkerAt(b, i) ==
    /\ i >= 1
    /\ i + Len(Marker) - 1 <= Len(b)
    /\ SubSeq(b, i, i + Len(Marker) - 1) = Marker

Has(s, c) == \E k \in 1..Len(s) : s[k] = c

\* b holds a marker with a line feed somewhere after it
HasCompleteSpan(b) ==
    \E i \in 1..Len(b) :
        MarkerAt(b, i) /\ \E j \in (i + Len(Marker))..Len(b) : b[j] = LF

\* what follows the terminator of the extracted frame in the scanned buffer b
AfterTerminator(b) == SubSeq(b, re_search(b).end + 2, Len(b))

\* the frames get_wimda_packet returns when the whole of w comes in one read
OneChunkFrames(w) ==
    LET b == Accumulate(<<>>, w)
    IN  IF re_search(b) = NoMatch THEN <<>> ELSE <<group1(b, re_search(b))>>

RequiredKeys == {"barometer", "outTemp", "outHumidity", "windDir", "windSpeed"}

\* a field that reads as a number: digits, white space around them aside
Numeric(tok) ==
    LET t == strip(strip(tok, CR), " ")
    IN  t # <<>> /\ \A k \in 1..Len(t) : IsDigit(t[k])

\* every field the driver reads is there and is a number
WellFormed(frame) ==
    \A name \in DOMAIN FieldIndex : Numeric(Attr(parse(frame), name))

\* the frames whose decoding is over
Decoded == IF pc = "decode" THEN SubSeq(frames, 1, Len(frames) - 1) ELSE frames

\* all the bytes are in, and the generator waits for more or for its caller
Quiescent == pos = Len(wire) /\ pc \in {"read", "yielded"}

----------------------------------------------------------------------------
(* The claims *)

\* C1 (as claimed): when a frame has been extracted, the bytes that followed
\* its terminator in the buffer are the buffer the next extraction starts
\* with: nothing the source delivered after the terminator is dropped.
C1_TailRetained ==
    [][(pc \in {"decode", "yielded"} /\ pc' = "read") => buf' = AfterTerminator(buf)]_vars

\* C2 (as claimed): once every byte of the wire has been read, in whatever
\* chunks, the frames extracted are the ones extracted when the whole wire
\* comes as one chunk (a wire that fits one read).
C2_ChunkIndependent ==
    (pos = Len(wire) /\ Len(wire) <= ReadSize) => frames = OneChunkFrames(wire)

\* C3 (as claimed): no returned frame contains a NUL byte.
C3_NoNulInFrame ==
    \A k \in 1..Len(frames) : ~Has(frames[k], NUL)

\* C4: when get_wimda_packet returns, the frame is the span of the scanned
\* buffer that starts at the earliest marker followed by a line feed and ends
\* just before the first line feed after that marker; nothing before the
\* marker is in it.  While it has not returned, the buffer holds no marker
\* followed by a line feed.  (The terminator is the pattern's: the line feed.)
C4_FirstSpan ==
    /\ pc = "decode" =>
          \E i \in 1..Len(buf) :
              /\ MarkerAt(buf, i)
              /\ \E j \in (i + Len(Marker))..Len(buf) :
                    /\ buf[j] = LF
                    /\ \A k \in i..(j - 1) : buf[k] # LF
                    /\ wimda_packet = SubSeq(buf, i, j - 1)
              /\ \A i2 \in 1..(i - 1) :
                    MarkerAt(buf, i2) => \A k \in (i2 + 1)..Len(buf) : buf[k] # LF
    /\ pc = "read" => ~HasCompleteSpan(buf)

\* C4 witness: a false start precedes the marker and is left out of the frame
C4_Witness ==
    /\ pc = "decode"
    /\ Len(buf) >= 3 /\ SubSeq(buf, 1, 3) = <<"$", "W", "$">>
    /\ wimda_packet = Marker \o <<"1">>

C6_LaterGoodFrameYielded ==
    ( /\ Quiescent
      /\ frames # <<>> /\ ~WellFormed(frames[1])
      /\ \E w \in WiresOf(MaxPieces - 1) :
            w # <<>> /\ w[Len(w)] = LF /\ wire = w \o GoodLine )
    => records # <<>>

\* C7: every record yielded has all five measurements, each a number, and
\* the records yielded are as many as the well-formed frames decoded: a frame
\* with a field missing, empty or not a number yields nothing.
C7_NoPartialRecords ==
    /\ \A k \in 1..Len(records) :
          /\ RequiredKeys \subseteq DOMAIN records[k]
          /\ \A key \in RequiredKeys : records[k][key] \in Int
    /\ Len(records) = Cardinality({k \in 1..Len(Decoded) : WellFormed(Decoded[k])})

\* C7 witness: a frame whose pressure is a number and whose temperature is
\* missing has been decoded, and nothing was yielded
C7_Witness ==
    /\ pc = "read"
    /\ Len(frames) = 1
    /\ Numeric(Attr(parse(frames[1]), "b_pressure_inch"))
    /\ ~Numeric(Attr(parse(frames[1]), "air_temp"))
    /\ records = <<>>

\* C8: a read that times out with no bytes changes nothing: the buffer is
\* kept, no frame is returned, nothing is raised, and the extractor is at the
\* read again; and get_wimda_packet returns only with a buffer that holds a
\* marker followed by a line feed.
C8_TimeoutKeepsWaiting ==
    [][ /\ (pc = "read" /\ lastRead' = "timeout") =>
              (pc' = "read" /\ UNCHANGED <<pos, buf, wimda_packet, frames, records>>)
        /\ Len(frames') > Len(frames) => HasCompleteSpan(buf') ]_vars

\* C8 witness: a read timed out while the buffer held part of a sentence
C8_Witness ==
    /\ lastRead = "timeout"
    /\ pc = "read"
    /\ buf # <<>>
    /\ frames = <<>>

\* C9 (as claimed): after an extraction attempt the buffer holds no complete
\* terminated line.
C9_NoTerminatedLineKept ==
    pc = "read" => ~Has(buf, LF)

\* C10 (as claimed): a returned frame contains neither CR nor LF.
C10_NoTerminatorInFrame ==
    \A k \in 1..Len(frames) : ~Has(frames[k], CR) /\ ~Has(frames[k], LF)

====
